---- MODULE Spec2Model ----
(***************************************************************************)
(* The menu browser of src/app.js as a state machine: the catalog loader,  *)
(* the derivation rules, the filter / search / sort handlers, the          *)
(* debounced search timer, the reset operation and the category indicator  *)
(* strip with its scroll listeners and timers.                             *)
(*                                                                         *)
(* Strings are sequences of one-character strings, so that includes(),     *)
(* toLowerCase(), trim() and localeCompare() are computed, not assumed.    *)
(* Arrays are objects of a small heap, so that an in-place sort acts on    *)
(* every variable that refers to the sorted array.                         *)
(* Time is counted in milliseconds and advances from one due timer to the   *)
(* next.                                                                   *)
(***************************************************************************)
EXTENDS Integers, Sequences, FiniteSets, TLC

\* ------------------------------------------------------------------ bounds

\* Number of array objects the heap can hold: menuData, filteredData and the
\* array a handler is building.
NumRefs == 3
\* Number of timer slots of the debounced search.
NumTimers == 2
\* Keystrokes counted within one burst (the count saturates here).
MaxBurst == 2
\* Runs of handleSearch counted after a keystroke (the count saturates here).
MaxRuns == 2
\* Scroll listeners kept apart (of more listeners, the latest ones are kept).
MaxListeners == 2
\* Timers of the indicator strip that can be pending together.
MaxIndicatorTimers == 2
\* Groups of a generated raw menu.
MaxGroups == 3
\* Items of a generated result list.
MaxResult == 3

\* ------------------------------------------------------- program constants

\* debounce(handleSearch, 300)
DebounceDelay == 300
\* reinitializeLiquidGlassIndicator: setTimeout(..., 100)
ReinitDelay == 100
\* initializeLiquidGlassIndicator: setTimeout(..., 600)
ShowDelay == 600
\* menuRect.top < window.innerHeight - 150 && menuRect.bottom > 150
BandMargin == 150

\* ----------------------------------------------------------------- strings

UpperChars == <<"A", "B", "C", "D", "E", "F", "G", "H", "I", "J", "K", "L", "M", "N", "O", "P", "Q", "R", "S", "T", "U", "V", "W", "X", "Y", "Z">>
LowerChars == <<"a", "b", "c", "d", "e", "f", "g", "h", "i", "j", "k", "l", "m", "n", "o", "p", "q", "r", "s", "t", "u", "v", "w", "x", "y", "z">>

\* The lower-case letter of every upper-case letter.
LowerOf ==
    [c \in { UpperChars[i] : i \in 1..Len(UpperChars) } |->
        LowerChars[CHOOSE i \in 1..Len(UpperChars) : UpperChars[i] = c]]

\* String.prototype.toLowerCase, one character.
ToLowerChar(c) == IF c \in DOMAIN LowerOf THEN LowerOf[c] ELSE c

\* String.prototype.toLowerCase
toLowerCase(s) == [i \in 1..Len(s) |-> ToLowerChar(s[i])]

\* String.prototype.includes: sub occurs in s as a contiguous substring.
includes(s, sub) ==
    \E i \in 0..(Len(s) - Len(sub)) : SubSeq(s, i + 1, i + Len(sub)) = sub

\* String.prototype.trim: leading and trailing white space removed.
RECURSIVE TrimLeft(_)
TrimLeft(s) == IF s # <<>> /\ Head(s) = " " THEN TrimLeft(Tail(s)) ELSE s

RECURSIVE TrimRight(_)
TrimRight(s) ==
    IF s # <<>> /\ s[Len(s)] = " " THEN TrimRight(SubSeq(s, 1, Len(s) - 1)) ELSE s

trim(s) == TrimRight(TrimLeft(s))

\* The collation order of String.prototype.localeCompare over the characters
\* of the titles: white space, then digits, then letters; the case of a letter
\* is a weaker difference than any difference of letters.
CollationOrder == <<" ", "0", "1", "2", "3", "4", "5", "6", "7", "8", "9", "a", "b", "c", "d", "e", "f", "g", "h", "i", "j", "k", "l", "m", "n", "o", "p", "q", "r", "s", "t", "u", "v", "w", "x", "y", "z">>

WeightOf ==
    [c \in { CollationOrder[i] : i \in 1..Len(CollationOrder) } |->
        CHOOSE i \in 1..Len(CollationOrder) : CollationOrder[i] = c]

PrimaryWeight(c) == WeightOf[ToLowerChar(c)]

\* Lexicographic comparison of two sequences of numbers: -1, 0 or 1.
RECURSIVE CompareSeq(_, _)
CompareSeq(a, b) ==
    IF a = <<>> /\ b = <<>> THEN 0
    ELSE IF a = <<>> THEN -1
    ELSE IF b = <<>> THEN 1
    ELSE IF Head(a) < Head(b) THEN -1
    ELSE IF Head(a) > Head(b) THEN 1
    ELSE CompareSeq(Tail(a), Tail(b))

\* 0 for a lower-case character (or one without case), 1 for an upper-case one.
CaseWeight(c) == IF ToLowerChar(c) = c THEN 0 ELSE 1

\* a.localeCompare(b): the letters decide first, the case only between strings
\* of the same letters, lower case first.
localeCompare(a, b) ==
    LET primary == CompareSeq([i \in 1..Len(a) |-> PrimaryWeight(a[i])],
                              [i \in 1..Len(b) |-> PrimaryWeight(b[i])])
    IN  IF primary # 0 THEN primary
        ELSE CompareSeq([i \in 1..Len(a) |-> CaseWeight(a[i])],
                        [i \in 1..Len(b) |-> CaseWeight(b[i])])

\* ------------------------------------------------------- derivation rules

vegCategories ==
    << <<"V", "e", "g", " ", "A", "p", "p", "e", "t", "i", "z", "e", "r", "s">>,
       <<"C", "h", "a", "a", "t">>,
       <<"V", "e", "g", " ", "T", "a", "n", "d", "o", "o", "r", "i">>,
       <<"V", "e", "g", " ", "C", "u", "r", "r", "i", "e", "s">>,
       <<"R", "i", "c", "e", " ", "&", " ", "B", "i", "r", "y", "a", "n", "i">>,
       <<"B", "r", "e", "a", "d", "s">>,
       <<"E", "x", "t", "r", "a", "s">>,
       <<"V", "e", "g", "a", "n", " ", "M", "e", "n", "u", " ", "C", "a", "t", "e", "g", "o", "r", "i", "e", "s">> >>

nonVegKeywords ==
    << <<"C", "h", "i", "c", "k", "e", "n">>,
       <<"L", "a", "m", "b">>,
       <<"S", "e", "a", "f", "o", "o", "d">>,
       <<"F", "i", "s", "h">>,
       <<"S", "h", "r", "i", "m", "p">>,
       <<"N", "o", "n", "-", "V", "e", "g">> >>

\* A slip: the vegetarian categories are looked for first.
isVegetarianVegFirst(category) ==
    IF \E k \in 1..Len(vegCategories) : includes(category, vegCategories[k])
    THEN TRUE
    ELSE FALSE

isVegetarian(category) ==
    IF \E k \in 1..Len(nonVegKeywords) : includes(category, nonVegKeywords[k])
    THEN FALSE
    ELSE \E k \in 1..Len(vegCategories) : includes(category, vegCategories[k])

KwVindaloo == <<"v", "i", "n", "d", "a", "l", "o", "o">>
KwExtraSpicy == <<"e", "x", "t", "r", "a", " ", "s", "p", "i", "c", "y">>
KwChilli == <<"c", "h", "i", "l", "l", "i">>
KwSpicy == <<"s", "p", "i", "c", "y">>
Kw65 == <<"6", "5">>
KwMasala == <<"m", "a", "s", "a", "l", "a">>
KwTandoori == <<"t", "a", "n", "d", "o", "o", "r", "i">>
KwCurry == <<"c", "u", "r", "r", "y">>

\* What string concatenation makes of an absent description.
UndefinedText == <<"u", "n", "d", "e", "f", "i", "n", "e", "d">>

\* A slip: the tiers are tested from the lowest up.
getSpiceLevelLowestFirst(title, hasDescription, description) ==
    LET text == toLowerCase(title \o <<" ">> \o
                    (IF hasDescription THEN description ELSE UndefinedText))
    IN  IF includes(text, KwMasala) \/ includes(text, KwTandoori)
           \/ includes(text, KwCurry) THEN 1
        ELSE IF includes(text, KwChilli) \/ includes(text, KwSpicy)
                \/ includes(text, Kw65) THEN 2
        ELSE IF includes(text, KwVindaloo) \/ includes(text, KwExtraSpicy) THEN 3
        ELSE 0

\* getSpiceLevel(item.title, item.description) on a raw item: the description
\* is the raw one, before the loader's default of '' is applied.
getSpiceLevel(title, hasDescription, description) ==
    LET text == toLowerCase(title \o <<" ">> \o
                    (IF hasDescription THEN description ELSE UndefinedText))
    IN  IF includes(text, KwVindaloo) \/ includes(text, KwExtraSpicy) THEN 3
        ELSE IF includes(text, KwChilli) \/ includes(text, KwSpicy)
                \/ includes(text, Kw65) THEN 2
        ELSE IF includes(text, KwMasala) \/ includes(text, KwTandoori)
                \/ includes(text, KwCurry) THEN 1
        ELSE 0

\* ------------------------------------------------ the fetched resource

\* The texts of the menus the model loads.
ALL == <<"a", "l", "l">>
VegCurries == <<"V", "e", "g", " ", "C", "u", "r", "r", "i", "e", "s">>
Chicken == <<"C", "h", "i", "c", "k", "e", "n">>
Breads == <<"B", "r", "e", "a", "d", "s">>
Extras == <<"E", "x", "t", "r", "a", "s">>
NonVegCurries == <<"N", "o", "n", "-", "V", "e", "g", " ", "C", "u", "r", "r", "i", "e", "s">>
DalCurry == <<"D", "a", "l", " ", "C", "u", "r", "r", "y">>
ChilliChicken == <<"C", "h", "i", "l", "l", "i", " ", "C", "h", "i", "c", "k", "e", "n">>
ChickenVindaloo == <<"C", "h", "i", "c", "k", "e", "n", " ", "V", "i", "n", "d", "a", "l", "o", "o">>
Naan == <<"N", "a", "a", "n">>
Raita == <<"R", "a", "i", "t", "a">>
Spicy == <<"S", "p", "i", "c", "y">>

\* A raw item { title, description?, price }; prices are in cents.
RawItem(title, hasDescription, description, price) ==
    [isNull |-> FALSE, title |-> title, hasDescription |-> hasDescription,
     description |-> description, price |-> price]

\* null in the place of an item.
NullItem ==
    [isNull |-> TRUE, title |-> <<>>, hasDescription |-> FALSE,
     description |-> <<>>, price |-> 0]

\* A raw group { category, items }. itemsKind is "array", "absent" (no items
\* property) or "other" (items is not an array).
RawGroup(hasCategory, category, itemsKind, items) ==
    [isNull |-> FALSE, hasCategory |-> hasCategory, category |-> category,
     itemsKind |-> itemsKind, items |-> items]

\* null in the place of a group.
NullGroup ==
    [isNull |-> TRUE, hasCategory |-> FALSE, category |-> <<>>,
     itemsKind |-> "absent", items |-> <<>>]

\* What fetch('menu-data.json') and response.json() produce. outcome is
\* "rejected" (fetch rejects), "notok" (response.ok is false), "badjson"
\* (response.json() rejects) or "json"; isArray tells an array from any other
\* parsed value.
Response(outcome, isArray, groups) ==
    [outcome |-> outcome, isArray |-> isArray, groups |-> groups]

\* Three groups, four items: two items of equal price, two of equal title.
MenuFull ==
    Response("json", TRUE,
        << RawGroup(TRUE, VegCurries, "array",
                    << RawItem(DalCurry, FALSE, <<>>, 1000) >>),
           RawGroup(TRUE, Chicken, "array",
                    << RawItem(ChilliChicken, TRUE, Spicy, 1000) >>),
           RawGroup(TRUE, Breads, "array",
                    << RawItem(Naan, FALSE, <<>>, 300),
                       RawItem(Naan, TRUE, <<>>, 400) >>) >>)

\* Groups without an items array around one valid group.
MenuSkipped ==
    Response("json", TRUE,
        << RawGroup(TRUE, Breads, "absent", <<>>),
           RawGroup(TRUE, NonVegCurries, "array",
                    << RawItem(ChickenVindaloo, FALSE, <<>>, 1250) >>),
           RawGroup(TRUE, Extras, "other", <<>>) >>)

\* An empty array of groups.
MenuEmpty == Response("json", TRUE, <<>>)

\* The responses on which loadMenuData throws.
FetchRejected == Response("rejected", FALSE, <<>>)
ResponseNotOk == Response("notok", FALSE, <<>>)
BadJson == Response("badjson", FALSE, <<>>)
NotAnArray == Response("json", FALSE, <<>>)
MenuNullGroup ==
    Response("json", TRUE,
        << RawGroup(TRUE, Breads, "array", << RawItem(Naan, FALSE, <<>>, 300) >>),
           NullGroup >>)
MenuNullItem ==
    Response("json", TRUE,
        << RawGroup(TRUE, Breads, "array",
                    << RawItem(Naan, FALSE, <<>>, 300), NullItem >>) >>)
MenuNoCategory ==
    Response("json", TRUE,
        << RawGroup(TRUE, Breads, "array", << RawItem(Naan, FALSE, <<>>, 300) >>),
           RawGroup(FALSE, <<>>, "array", << RawItem(Raita, FALSE, <<>>, 200) >>) >>)

Responses ==
    { MenuFull, MenuSkipped, MenuEmpty, FetchRejected, ResponseNotOk, BadJson,
      NotAnArray, MenuNullGroup, MenuNullItem, MenuNoCategory }

\* The texts the user types into the search box.
TypedNaan == <<"N", "a", "a", "n", " ">>
TypedC == <<"C">>
SearchTexts == { <<>>, TypedNaan, TypedC }

\* The options of the dietary, spice and sort selectors.
DietaryOptions == { "all", "vegetarian", "non-vegetarian" }
SpiceOptions == { "all", "0", "1", "2", "3" }
SortOptions == { "default", "price-low", "price-high", "name-az", "name-za" }

\* ----------------------------------------------------------- the loader

\* categoryGroup.items.forEach(item => menuData.push({...})) from item i on.
\* acc is [menuData, itemId, threw]. item.title on null throws, and so does
\* category.includes() in isVegetarian on an absent category.
RECURSIVE PushItems(_, _, _)
PushItems(group, i, acc) ==
    IF acc.threw \/ i > Len(group.items) THEN acc
    ELSE LET item == group.items[i]
         IN  IF item.isNull \/ ~group.hasCategory
             THEN [acc EXCEPT !.threw = TRUE]
             ELSE PushItems(group, i + 1,
                    [menuData |-> Append(acc.menuData,
                        [id |-> acc.itemId,
                         title |-> item.title,
                         description |->
                             IF item.hasDescription THEN item.description ELSE <<>>,
                         price |-> item.price,
                         category |-> group.category,
                         vegetarian |-> isVegetarian(group.category),
                         spicy |-> getSpiceLevel(item.title, item.hasDescription,
                                                 item.description)]),
                     itemId |-> acc.itemId + 1,
                     threw |-> FALSE])

\* data.forEach(categoryGroup => ...) from group g on. categoryGroup.items on
\* null throws; a group whose items is absent or no array is passed over.
RECURSIVE FlattenGroups(_, _, _)
FlattenGroups(groups, g, acc) ==
    IF acc.threw \/ g > Len(groups) THEN acc
    ELSE LET categoryGroup == groups[g]
         IN  IF categoryGroup.isNull THEN [acc EXCEPT !.threw = TRUE]
             ELSE IF categoryGroup.itemsKind = "array"
             THEN FlattenGroups(groups, g + 1, PushItems(categoryGroup, 1, acc))
             ELSE FlattenGroups(groups, g + 1, acc)

\* A slip: "let itemId = 0".
loadMenuDataIdsFromZero(response, oldMenu) ==
    IF response.outcome # "json"
    THEN [threw |-> TRUE, reassigned |-> FALSE, menuData |-> oldMenu]
    ELSE IF ~response.isArray
    THEN [threw |-> TRUE, reassigned |-> TRUE, menuData |-> <<>>]
    ELSE LET acc == FlattenGroups(response.groups, 1,
                        [menuData |-> <<>>, itemId |-> 0, threw |-> FALSE])
         IN  [threw |-> acc.threw, reassigned |-> TRUE, menuData |-> acc.menuData]

\* loadMenuData on a response, with oldMenu the contents of menuData before
\* the call: [threw, reassigned, menuData], where reassigned tells whether
\* "menuData = []" was reached and menuData is the contents of menuData when
\* the function returns or throws.
loadMenuData(response, oldMenu) ==
    IF response.outcome # "json"
    THEN [threw |-> TRUE, reassigned |-> FALSE, menuData |-> oldMenu]
    ELSE IF ~response.isArray
    THEN [threw |-> TRUE, reassigned |-> TRUE, menuData |-> <<>>]
    ELSE LET acc == FlattenGroups(response.groups, 1,
                        [menuData |-> <<>>, itemId |-> 1, threw |-> FALSE])
         IN  [threw |-> acc.threw, reassigned |-> TRUE, menuData |-> acc.menuData]

\* ------------------------------------------------------- the pipeline

\* Array.prototype.filter is SelectSeq: the kept items, in their order, as a
\* new array.

\* The search predicate of handleSearch and applyFilters.
MatchesSearch(item, term) ==
    \/ includes(toLowerCase(item.title), term)
    \/ includes(toLowerCase(item.description), term)
    \/ includes(toLowerCase(item.category), term)

\* parseInt on the value of a spice option.
parseInt(s) ==
    CASE s = "0" -> 0 [] s = "1" -> 1 [] s = "2" -> 2 [] s = "3" -> 3
      [] OTHER -> -1

\* The four filter stages of applyFilters.
CategoryStage(results, category) ==
    IF category # ALL
    THEN SelectSeq(results, LAMBDA item : item.category = category)
    ELSE results

DietaryStage(results, dietary) ==
    IF dietary = "vegetarian"
    THEN SelectSeq(results, LAMBDA item : item.vegetarian = TRUE)
    ELSE IF dietary = "non-vegetarian"
    THEN SelectSeq(results, LAMBDA item : item.vegetarian = FALSE)
    ELSE results

SpiceStage(results, spice) ==
    IF spice # "all"
    THEN SelectSeq(results, LAMBDA item : item.spicy = parseInt(spice))
    ELSE results

SearchStage(results, term) ==
    IF term # <<>>
    THEN SelectSeq(results, LAMBDA item : MatchesSearch(item, term))
    ELSE results

\* The comparators of sortItems: negative, zero or positive.
Compare(sortType, a, b) ==
    CASE sortType = "price-low" -> a.price - b.price
      [] sortType = "price-high" -> b.price - a.price
      [] sortType = "name-az" -> localeCompare(a.title, b.title)
      [] sortType = "name-za" -> localeCompare(b.title, a.title)
      [] OTHER -> 0

\* Array.prototype.sort is stable: x goes behind every element that does not
\* compare greater than it.
InsertSorted(sorted, x, sortType) ==
    LET before == { i \in 1..Len(sorted) : Compare(sortType, sorted[i], x) <= 0 }
        k == IF before = {} THEN 0
             ELSE CHOOSE i \in before : \A j \in before : j <= i
    IN  SubSeq(sorted, 1, k) \o <<x>> \o SubSeq(sorted, k + 1, Len(sorted))

RECURSIVE StableSort(_, _)
StableSort(items, sortType) ==
    IF items = <<>> THEN <<>>
    ELSE InsertSorted(StableSort(SubSeq(items, 1, Len(items) - 1), sortType),
                      items[Len(items)], sortType)

\* The contents sortItems leaves in the array it is given.
sortItems(items, sortType) ==
    IF sortType \in { "price-low", "price-high", "name-az", "name-za" }
    THEN StableSort(items, sortType)
    ELSE items

\* The keys of itemsByCategory in insertion order: the categories of items in
\* the order of their first occurrence.
RECURSIVE CategoryKeys(_)
CategoryKeys(items) ==
    IF items = <<>> THEN <<>>
    ELSE LET keys == CategoryKeys(SubSeq(items, 1, Len(items) - 1))
             category == items[Len(items)].category
         IN  IF \E k \in 1..Len(keys) : keys[k] = category
             THEN keys
             ELSE Append(keys, category)

\* The decimal digits and their values.
DigitValue ==
    [c \in { "0", "1", "2", "3", "4", "5", "6", "7", "8", "9" } |->
        CASE c = "0" -> 0 [] c = "1" -> 1 [] c = "2" -> 2 [] c = "3" -> 3
          [] c = "4" -> 4 [] c = "5" -> 5 [] c = "6" -> 6 [] c = "7" -> 7
          [] c = "8" -> 8 [] c = "9" -> 9]

Digits(s) == [i \in 1..Len(s) |-> DigitValue[s[i]]]

\* The greatest array index, 2^32 - 2, digit by digit.
MaxArrayIndex == <<4, 2, 9, 4, 9, 6, 7, 2, 9, 4>>

\* A property key is an array index when it is the canonical decimal form of
\* an integer from 0 to 2^32 - 2.
IsArrayIndex(s) ==
    /\ Len(s) >= 1
    /\ Len(s) <= Len(MaxArrayIndex)
    /\ \A i \in 1..Len(s) : s[i] \in DOMAIN DigitValue
    /\ Len(s) > 1 => s[1] # "0"
    /\ Len(s) = Len(MaxArrayIndex) => CompareSeq(Digits(s), MaxArrayIndex) <= 0

\* a < b for two array indices.
IndexLess(a, b) ==
    \/ Len(a) < Len(b)
    \/ Len(a) = Len(b) /\ CompareSeq(Digits(a), Digits(b)) < 0

\* Object.keys(itemsByCategory): the keys that are array indices in ascending
\* numeric order, then the other keys in the order of their insertion. (A
\* category is taken not to be the name of a member of Object.prototype.)
ObjectKeys(items) ==
    LET keys == CategoryKeys(items)
        indices == SelectSeq(keys, IsArrayIndex)
        indexSet == { indices[i] : i \in 1..Len(indices) }
        ascending ==
            [p \in 1..Len(indices) |->
                CHOOSE k \in indexSet :
                    Cardinality({ j \in indexSet : IndexLess(j, k) }) = p - 1]
    IN  ascending \o SelectSeq(keys, LAMBDA k : ~IsArrayIndex(k))

\* The category sections displayMenuItems builds: the header's count and the
\* cards of the grid.
Sections(items) ==
    LET keys == ObjectKeys(items)
    IN  [k \in 1..Len(keys) |->
            LET cards == SelectSeq(items, LAMBDA item : item.category = keys[k])
            IN  [category |-> keys[k], count |-> Len(cards), cards |-> cards]]

\* ------------------------------------------------------------- state

VARIABLES
    response,         \* what the fetch of menu-data.json yields on this page load
    followStrip,      \* whether the behaviour follows the indicator strip: the
                      \* handlers of the strip read and write no state of the
                      \* pipeline, and where the strip is not followed its state
                      \* stays as the page is served
    probe,            \* the input and the result of a function applied on its own
    scrollY,          \* window.scrollY
    isInMenu,         \* whether .menu-section was within the band at the latest
                      \* scroll event (at page start: as the page is served)
    strip,            \* the entries of #indicatorTrack: category and class 'active'
    indicatorVisible, \* class 'visible' of #liquidGlassIndicator
    listeners,        \* the scroll listeners of setupLiquidGlassScrollTracking
    indicatorTimers,  \* the pending timers of the indicator, in creation order
    phase,            \* "loading", "ready" (initialised) or "failed" (showError ran)
    heap,             \* the contents of the array objects
    menuData,         \* the array menuData refers to
    filteredData,     \* the array filteredData refers to
    categoryOptions,  \* the option values of #categoryFilter
    searchInput,      \* value of #searchInput
    categoryFilter,   \* value of #categoryFilter
    dietaryFilter,    \* value of #dietaryFilter
    spiceFilter,      \* value of #spiceFilter
    sortSelect,       \* value of #sortSelect
    menuGridHTML,     \* content of #menuGrid
    menuGridDisplay,  \* style.display of #menuGrid
    noResultsDisplay, \* style.display of #noResults
    count,            \* text of #count (0 stands for the text of the page as served)
    timers,           \* the timer slots of the debounced search
    timeoutId,        \* timeoutId of the debounce closure, 0 for undefined
    rendered,         \* the list last handed to displayMenuItems
    lastOp,           \* what happened last: "load", "change" (the user changed a control),
                      \* "handleSearch" (a debounce timer ran), "resetFilters",
                      \* "scroll" (a scroll event) or "indicator" (a timer of the
                      \* indicator ran)
    afterReset,       \* "reset" after resetFilters, "fired" once a pending search ran after it
    burst,            \* keystrokes of the current burst
    runsSinceKey,     \* runs of handleSearch since the last keystroke
    staleRun          \* whether a run was scheduled by a keystroke that was not the last one

controls == <<searchInput, categoryFilter, dietaryFilter, spiceFilter, sortSelect>>
arrays == <<heap, menuData, filteredData>>
indicatorVars == <<strip, indicatorVisible, listeners, indicatorTimers>>
surface ==
    <<menuGridHTML, menuGridDisplay, noResultsDisplay, rendered, indicatorVars>>
environment == <<response, followStrip, probe>>
viewport == <<scrollY, isInMenu>>
debounceState == <<timers, timeoutId, burst, runsSinceKey, staleRun>>
vars ==
    <<response, phase, heap, menuData, filteredData, categoryOptions,
      searchInput, categoryFilter, dietaryFilter, spiceFilter, sortSelect,
      menuGridHTML, menuGridDisplay, noResultsDisplay, count, timers, timeoutId,
      rendered, lastOp, afterReset, burst, runsSinceKey, staleRun, followStrip,
      probe, scrollY, isInMenu, strip, indicatorVisible, listeners,
      indicatorTimers>>

Refs == 1..NumRefs
TimerIds == 1..NumTimers

\* A timer slot that holds no pending timer.
Idle == [remaining |-> -1, latest |-> FALSE]

Pending(ts) == { id \in TimerIds : ts[id].remaining >= 0 }

Min(a, b) == IF a < b THEN a ELSE b

\* The array a new array value of menuData is stored in.
FreshRef == CHOOSE r \in Refs : r \notin { menuData, filteredData }

\* The array a new array value of filteredData is stored in, when m is the
\* array of menuData: any array but that one (the array filteredData referred
\* to before is dropped by the assignment).
NewArray(m) == CHOOSE r \in Refs : r # m

\* The heap after items are stored in array r, with the arrays of live kept
\* and every other array dropped.
Store(live, r, items) ==
    [x \in Refs |-> IF x = r THEN items ELSE IF x \in live THEN heap[x] ELSE <<>>]

Catalog == heap[menuData]

\* ------------------------------------------------------ the page layout

\* What getBoundingClientRect measures follows from the scroll offset and the
\* heights of the page's blocks, in pixels: the hero above .menu-section, the
\* filter bar, a category section's header and one card of it, the "no
\* results" block and the padding below the grid.
Layout ==
    [innerHeight |-> 600, hero |-> 600, filters |-> 100, header |-> 100,
     card |-> 200, noResults |-> 200, padding |-> 200]

\* The scroll offsets the user scrolls to.
ScrollPositions == { 0, 700, 1000, 1800 }

Abs(x) == IF x < 0 THEN -x ELSE x

\* document.querySelectorAll('.category-section') on a content of #menuGrid.
CategorySections(html) == IF html.kind = "sections" THEN html.sections ELSE <<>>

SectionHeight(section) == Layout.header + Layout.card * section.count

RECURSIVE HeightOf(_)
HeightOf(sections) ==
    IF sections = <<>> THEN 0
    ELSE SectionHeight(Head(sections)) + HeightOf(Tail(sections))

\* menuSection.getBoundingClientRect() at scroll offset y.
MenuRect(y) ==
    LET top == Layout.hero - y
        grid == IF menuGridDisplay = "none" THEN 0
                ELSE HeightOf(CategorySections(menuGridHTML))
        none == IF noResultsDisplay = "block" THEN Layout.noResults ELSE 0
    IN  [top |-> top,
         bottom |-> top + Layout.filters + grid + none + Layout.padding]

\* section.getBoundingClientRect() of the k-th section of #menuGrid at scroll
\* offset y.
SectionRect(k, y) ==
    LET sections == CategorySections(menuGridHTML)
    IN  [top |-> Layout.hero + Layout.filters
                    + HeightOf(SubSeq(sections, 1, k - 1)) - y,
         height |-> SectionHeight(sections[k])]

\* getBoundingClientRect() of an element that is out of the document or
\* within a block that is not displayed.
ZeroRect == [top |-> 0, height |-> 0]

\* menuRect.top < window.innerHeight - 150 && menuRect.bottom > 150
InMenu(y) ==
    /\ MenuRect(y).top < Layout.innerHeight - BandMargin
    /\ MenuRect(y).bottom > BandMargin

\* ------------------------------------------------- the indicator strip

\* A scroll listener: whether the sections it captured are still those of
\* #menuGrid, and whether the entries it captured are still those of the strip.
Listener(sectionsLive, itemsLive) ==
    [sectionsLive |-> sectionsLive, itemsLive |-> itemsLive]

IndicatorNow ==
    [strip |-> strip, visible |-> indicatorVisible, listeners |-> listeners,
     timers |-> indicatorTimers]

\* The strip takes the state ind, where the behaviour follows the strip.
SetIndicator(ind) ==
    IF followStrip
    THEN /\ Len(ind.timers) <= MaxIndicatorTimers
         /\ strip' = ind.strip
         /\ indicatorVisible' = ind.visible
         /\ listeners' = ind.listeners
         /\ indicatorTimers' = ind.timers
    ELSE UNCHANGED indicatorVars

\* window.addEventListener('scroll', l)
addEventListener(ls, l) ==
    IF Len(ls) < MaxListeners THEN Append(ls, l) ELSE Append(Tail(ls), l)

\* reinitializeLiquidGlassIndicator
reinitializeLiquidGlassIndicator(ind) ==
    [ind EXCEPT !.timers =
        Append(ind.timers, [kind |-> "reinit", remaining |-> ReinitDelay])]

\* "menuGrid.innerHTML = ''" takes the sections the listeners captured out of
\* the document.
DetachSections(ind) ==
    [ind EXCEPT !.listeners =
        [i \in 1..Len(ind.listeners) |->
            Listener(FALSE, ind.listeners[i].itemsLive)]]

\* What displayMenuItems(items) does to the indicator.
AfterRender(ind, items) ==
    IF Len(items) = 0 THEN ind
    ELSE reinitializeLiquidGlassIndicator(DetachSections(ind))

\* initializeLiquidGlassIndicator, with sections the category sections of
\* #menuGrid.
initializeLiquidGlassIndicator(ind, sections) ==
    LET cleared ==
            [ind EXCEPT !.strip = <<>>,
                        !.listeners =
                            [i \in 1..Len(ind.listeners) |->
                                Listener(ind.listeners[i].sectionsLive, FALSE)]]
    IN  IF Len(sections) = 0
        THEN [cleared EXCEPT !.visible = FALSE]
        ELSE [cleared EXCEPT
                !.strip = [k \in 1..Len(sections) |->
                              [category |-> sections[k].category, active |-> FALSE]],
                !.listeners = addEventListener(cleared.listeners, Listener(TRUE, TRUE)),
                !.timers = Append(cleared.timers,
                                  [kind |-> "show", remaining |-> ShowDelay])]

\* rect.top < window.innerHeight && rect.bottom > 0
Intersects(rect) ==
    /\ rect.top < Layout.innerHeight
    /\ rect.top + rect.height > 0

\* Math.abs(sectionMiddle - viewportMiddle), doubled: rect.height / 2 and
\* window.innerHeight / 2 need not be whole numbers.
Distance(rect) == Abs(2 * rect.top + rect.height - Layout.innerHeight)

\* distance < closestDistance, where closestDistance starts as Infinity.
Closer(distance, closest) == ~closest.finite \/ distance < closest.distance

\* The loop "categorySections.forEach((section, index) => ...)" from index on;
\* acc is [activeIndex, closest].
RECURSIVE FindActive(_, _, _)
FindActive(rects, index, acc) ==
    IF index >= Len(rects) THEN acc
    ELSE LET rect == rects[index + 1]
         IN  FindActive(rects, index + 1,
                IF Closer(Distance(rect), acc.closest) /\ Intersects(rect)
                THEN [activeIndex |-> index,
                      closest |-> [finite |-> TRUE, distance |-> Distance(rect)]]
                ELSE acc)

\* The rectangles a listener measures at scroll offset y on the n sections it
\* captured.
MeasuredRects(listener, n, y) ==
    [k \in 1..n |->
        IF listener.sectionsLive /\ menuGridDisplay # "none"
        THEN SectionRect(k, y)
        ELSE ZeroRect]

\* activeIndex as a listener finds it at scroll offset y.
ActiveIndex(listener, n, y) ==
    FindActive(MeasuredRects(listener, n, y), 0,
               [activeIndex |-> 0,
                closest |-> [finite |-> FALSE, distance |-> 0]]).activeIndex

\* The scroll listeners run at scroll offset y, in the order of their
\* registration. Every listener captured one section or more, so every one
\* sets or removes 'visible' alike; the entries of the strip are marked by
\* the listener that captured them.
RunListeners(ind, y) ==
    IF ind.listeners = <<>> THEN ind
    ELSE IF ~InMenu(y) THEN [ind EXCEPT !.visible = FALSE]
    ELSE LET marking == { i \in 1..Len(ind.listeners) : ind.listeners[i].itemsLive }
         IN  IF marking = {} THEN [ind EXCEPT !.visible = TRUE]
             ELSE LET l == ind.listeners[CHOOSE i \in marking : TRUE]
                      activeIndex == ActiveIndex(l, Len(ind.strip), y)
                  IN  [ind EXCEPT
                          !.visible = TRUE,
                          !.strip = [k \in 1..Len(ind.strip) |->
                                        [category |-> ind.strip[k].category,
                                         active |-> (k - 1 = activeIndex)]]]

\* The state of the page as it is served.
InitPage ==
    /\ phase = "loading"
    /\ heap = [x \in Refs |-> <<>>]
    /\ menuData = 1
    /\ filteredData = 2
    /\ categoryOptions = <<ALL>>
    /\ searchInput = <<>>
    /\ categoryFilter = ALL
    /\ dietaryFilter = "all"
    /\ spiceFilter = "all"
    /\ sortSelect = "default"
    /\ menuGridHTML = [kind |-> "initial", sections |-> <<>>]
    /\ menuGridDisplay = ""
    /\ noResultsDisplay = ""
    /\ count = 0
    /\ timers = [id \in TimerIds |-> Idle]
    /\ timeoutId = 0
    /\ rendered = <<>>
    /\ lastOp = "none"
    /\ afterReset = "no"
    /\ burst = 0
    /\ runsSinceKey = 0
    /\ staleRun = FALSE
    /\ scrollY = 0
    /\ isInMenu = InMenu(0)
    /\ strip = <<>>
    /\ indicatorVisible = FALSE
    /\ listeners = <<>>
    /\ indicatorTimers = <<>>

\* No function is applied on its own. A probe holds the arguments of one
\* function and, once the function was applied (done), its result.
NoProbe ==
    [kind |-> "none", done |-> FALSE, category |-> <<>>, title |-> <<>>,
     hasDescription |-> FALSE, description |-> <<>>, items |-> <<>>,
     menu |-> <<>>,
     criteria |-> [category |-> ALL, dietary |-> "all", spice |-> "all",
                   searchText |-> <<>>],
     order |-> <<>>, vegetarian |-> FALSE, level |-> 0, ids |-> {}]

Init ==
    /\ response \in Responses
    /\ followStrip = FALSE
    /\ probe = NoProbe
    /\ InitPage

\* ---------------------------------------------------------- rendering

\* A slip: no early return on an empty list.
RenderSectionsOfAny(items) ==
    /\ rendered' = items
    /\ menuGridDisplay' = "block"
    /\ noResultsDisplay' = "none"
    /\ menuGridHTML' = [kind |-> "sections", sections |-> Sections(items)]

\* displayMenuItems up to the last category section: what it does to
\* #menuGrid and #noResults.
RenderSections(items) ==
    /\ rendered' = items
    /\ IF Len(items) = 0
       THEN /\ menuGridDisplay' = "none"
            /\ noResultsDisplay' = "block"
            /\ UNCHANGED menuGridHTML
       ELSE /\ menuGridDisplay' = "block"
            /\ noResultsDisplay' = "none"
            /\ menuGridHTML' = [kind |-> "sections", sections |-> Sections(items)]

displayMenuItems(items) ==
    /\ RenderSections(items)
    /\ SetIndicator(AfterRender(IndicatorNow, items))

updateResultsCount(n) == count' = n

showError ==
    /\ menuGridHTML' = [kind |-> "error", sections |-> <<>>]
    /\ UNCHANGED <<menuGridDisplay, noResultsDisplay, rendered, indicatorVars>>

\* The option values of #categoryFilter after populateCategoryFilter.
populateCategoryFilter(options, menu) == options \o CategoryKeys(menu)

\* ------------------------------------------------------------- loading

\* The DOMContentLoaded handler from the moment the fetch has settled. It
\* calls displayMenuItems and, in the same run, initializeLiquidGlassIndicator.
Load ==
    /\ phase = "loading"
    /\ LET res == loadMenuData(response, heap[menuData])
           m == IF res.reassigned THEN FreshRef ELSE menuData
           f == IF res.threw THEN filteredData ELSE NewArray(m)
       IN  /\ menuData' = m
           /\ filteredData' = f
           /\ heap' = [x \in Refs |->
                         IF x = m THEN res.menuData
                         ELSE IF x = f
                         THEN (IF res.threw THEN heap[f] ELSE res.menuData)
                         ELSE <<>>]
           /\ IF res.threw
              THEN /\ phase' = "failed"
                   /\ showError
                   /\ UNCHANGED <<categoryOptions, count>>
              ELSE /\ phase' = "ready"
                   /\ categoryOptions' =
                          populateCategoryFilter(categoryOptions, res.menuData)
                   /\ RenderSections(res.menuData)
                   /\ updateResultsCount(Len(res.menuData))
                   /\ SetIndicator(
                          initializeLiquidGlassIndicator(
                              AfterRender(IndicatorNow, res.menuData),
                              Sections(res.menuData)))
    /\ lastOp' = "load"
    /\ UNCHANGED <<environment, viewport, controls, debounceState, afterReset>>

\* ------------------------------------------------------------ handlers

\* A slip: "let results = menuData", no copy made.
SpreadMenuDataAlias == menuData

\* "let results = [...menuData]": the array the copy is stored in.
SpreadMenuData == NewArray(menuData)

\* "Re-apply current sort": the contents of results when applyFilters renders.
ReapplySort(results, sort) ==
    IF sort # "default" THEN sortItems(results, sort) ELSE results

\* A slip: the dietary stage is left out.
FilterStagesWithoutDietary(menu, category, dietary, spice, searchText) ==
    SearchStage(SpiceStage(CategoryStage(menu, category), spice), searchText)

\* The four filter stages in the order of applyFilters: category, dietary,
\* spice, search.
FilterStages(menu, category, dietary, spice, searchText) ==
    SearchStage(
        SpiceStage(DietaryStage(CategoryStage(menu, category), dietary), spice),
        searchText)

\* applyFilters, reading the given values of the five controls.
applyFilters(category, dietary, spice, searchValue, sort) ==
    LET searchText == trim(toLowerCase(searchValue))
        filtered == FilterStages(heap[menuData], category, dietary, spice, searchText)
        \* every filter() call yields a new array
        narrowed == \/ category # ALL
                    \/ dietary \in { "vegetarian", "non-vegetarian" }
                    \/ spice # "all"
                    \/ searchText # <<>>
        results == IF narrowed THEN NewArray(menuData) ELSE SpreadMenuData
        final == ReapplySort(filtered, sort)
    IN  /\ filteredData' = results
        /\ heap' = Store({ menuData }, results, final)
        /\ UNCHANGED menuData
        /\ displayMenuItems(final)
        /\ updateResultsCount(Len(final))

\* handleSort with event.target.value = sortValue.
handleSort(sortValue) ==
    LET itemsToSort == NewArray(menuData)
        sorted == sortItems(heap[filteredData], sortValue)
    IN  /\ filteredData' = itemsToSort
        /\ heap' = Store({ menuData }, itemsToSort, sorted)
        /\ UNCHANGED <<menuData, count>>
        /\ displayMenuItems(sorted)

\* handleSearch, reading the value #searchInput holds when the timer fires.
handleSearch ==
    LET searchTerm == trim(toLowerCase(searchInput))
    IN  IF searchTerm = <<>>
        THEN applyFilters(categoryFilter, dietaryFilter, spiceFilter,
                          searchInput, sortSelect)
        ELSE LET searchResults ==
                     SelectSeq(heap[filteredData],
                            LAMBDA item : MatchesSearch(item, searchTerm))
             IN  /\ displayMenuItems(searchResults)
                 /\ updateResultsCount(Len(searchResults))
                 /\ UNCHANGED arrays

\* A slip: the pending timer is not cleared.
clearTimeoutSkipped(ts, id) == ts

\* clearTimeout(id) on the timer slots.
clearTimeout(ts, id) ==
    IF id \in TimerIds THEN [ts EXCEPT ![id] = Idle] ELSE ts

\* The function debounce returns: the pending timer is cleared and a new one
\* is set. The new timer is the one of the latest keystroke; a timer that
\* stays pending is not.
debounce ==
    LET cleared == clearTimeout(timers, timeoutId)
        free == TimerIds \ Pending(cleared)
        id == CHOOSE i \in free : \A j \in free : i <= j
    IN  /\ free # {}
        /\ timers' = [i \in TimerIds |->
                        IF i = id
                        THEN [remaining |-> DebounceDelay, latest |-> TRUE]
                        ELSE [cleared[i] EXCEPT !.latest = FALSE]]
        /\ timeoutId' = id

\* The user selects a category. The change listener exists once
\* setupEventListeners has run: while the fetch is pending, and after a failed
\* load, the control takes the value and no handler runs.
ChangeCategory(c) ==
    /\ c # categoryFilter
    /\ categoryFilter' = c
    /\ IF phase = "ready"
       THEN /\ applyFilters(c, dietaryFilter, spiceFilter, searchInput, sortSelect)
            /\ lastOp' = "change"
       ELSE UNCHANGED <<arrays, surface, count, lastOp>>
    /\ afterReset' = "no"
    /\ UNCHANGED <<environment, viewport, phase, categoryOptions, searchInput,
                   dietaryFilter, spiceFilter, sortSelect, debounceState>>

ChangeDietary(d) ==
    /\ d # dietaryFilter
    /\ dietaryFilter' = d
    /\ IF phase = "ready"
       THEN /\ applyFilters(categoryFilter, d, spiceFilter, searchInput, sortSelect)
            /\ lastOp' = "change"
       ELSE UNCHANGED <<arrays, surface, count, lastOp>>
    /\ afterReset' = "no"
    /\ UNCHANGED <<environment, viewport, phase, categoryOptions, searchInput,
                   categoryFilter, spiceFilter, sortSelect, debounceState>>

ChangeSpice(s) ==
    /\ s # spiceFilter
    /\ spiceFilter' = s
    /\ IF phase = "ready"
       THEN /\ applyFilters(categoryFilter, dietaryFilter, s, searchInput, sortSelect)
            /\ lastOp' = "change"
       ELSE UNCHANGED <<arrays, surface, count, lastOp>>
    /\ afterReset' = "no"
    /\ UNCHANGED <<environment, viewport, phase, categoryOptions, searchInput,
                   categoryFilter, dietaryFilter, sortSelect, debounceState>>

ChangeSort(v) ==
    /\ v # sortSelect
    /\ sortSelect' = v
    /\ IF phase = "ready"
       THEN /\ handleSort(v)
            /\ lastOp' = "change"
       ELSE UNCHANGED <<arrays, surface, count, lastOp>>
    /\ afterReset' = "no"
    /\ UNCHANGED <<environment, viewport, phase, categoryOptions, searchInput,
                   categoryFilter, dietaryFilter, spiceFilter, debounceState>>

\* A keystroke in the search box: the input listener is the debounced
\* handleSearch.
KeyInput(text) ==
    /\ text # searchInput
    /\ searchInput' = text
    /\ IF phase = "ready"
       THEN /\ debounce
            /\ burst' = IF Pending(timers) = {} THEN 1 ELSE Min(burst + 1, MaxBurst)
            /\ runsSinceKey' = 0
            /\ lastOp' = "change"
            /\ UNCHANGED staleRun
       ELSE UNCHANGED <<debounceState, lastOp>>
    /\ afterReset' = "no"
    /\ UNCHANGED <<environment, viewport, phase, arrays, categoryOptions,
                   categoryFilter, dietaryFilter, spiceFilter, sortSelect,
                   surface, count>>

\* A timer of the debounced search is due and its callback runs.
TimerFire(id) ==
    /\ timers[id].remaining = 0
    /\ timers' = [timers EXCEPT ![id] = Idle]
    /\ handleSearch
    /\ runsSinceKey' = Min(runsSinceKey + 1, MaxRuns)
    /\ staleRun' = (staleRun \/ ~timers[id].latest)
    /\ lastOp' = "handleSearch"
    /\ afterReset' = IF afterReset = "no" THEN "no" ELSE "fired"
    /\ UNCHANGED <<environment, viewport, phase, categoryOptions, controls,
                   timeoutId, burst>>

\* The times after which the pending timers are due.
Remaining ==
    { timers[id].remaining : id \in Pending(timers) }
        \cup { indicatorTimers[i].remaining : i \in 1..Len(indicatorTimers) }

\* Time passes until the next pending timer is due. A due timer runs before
\* more time passes.
Tick ==
    /\ Remaining # {}
    /\ \A r \in Remaining : r > 0
    /\ LET next == CHOOSE d \in Remaining : \A r \in Remaining : d <= r
       IN  /\ timers' = [id \in TimerIds |->
                            IF id \in Pending(timers)
                            THEN [timers[id] EXCEPT !.remaining = @ - next]
                            ELSE timers[id]]
           /\ indicatorTimers' =
                  [i \in 1..Len(indicatorTimers) |->
                      [indicatorTimers[i] EXCEPT !.remaining = @ - next]]
    /\ UNCHANGED <<environment, viewport, phase, arrays, categoryOptions,
                   controls, menuGridHTML, menuGridDisplay, noResultsDisplay,
                   rendered, strip, indicatorVisible, listeners, count,
                   timeoutId, lastOp, afterReset, burst, runsSinceKey,
                   staleRun>>

\* A timer of the indicator is due and its callback runs: of the due timers,
\* the one created first.
IndicatorTimerFire ==
    /\ \E i \in 1..Len(indicatorTimers) : indicatorTimers[i].remaining = 0
    /\ LET due == { i \in 1..Len(indicatorTimers) : indicatorTimers[i].remaining = 0 }
           first == CHOOSE i \in due : \A j \in due : i <= j
           rest == SubSeq(indicatorTimers, 1, first - 1)
                      \o SubSeq(indicatorTimers, first + 1, Len(indicatorTimers))
           ind == [IndicatorNow EXCEPT !.timers = rest]
       IN  IF indicatorTimers[first].kind = "reinit"
           THEN SetIndicator(
                    initializeLiquidGlassIndicator(ind, CategorySections(menuGridHTML)))
           ELSE SetIndicator([ind EXCEPT !.visible = TRUE])
    /\ lastOp' = "indicator"
    /\ UNCHANGED <<environment, viewport, phase, arrays, categoryOptions,
                   controls, menuGridHTML, menuGridDisplay, noResultsDisplay,
                   rendered, count, debounceState, afterReset>>

\* A scroll event at scroll offset y.
Scroll(y) ==
    /\ y # scrollY
    /\ scrollY' = y
    /\ isInMenu' = InMenu(y)
    /\ SetIndicator(RunListeners(IndicatorNow, y))
    /\ lastOp' = "scroll"
    /\ UNCHANGED <<environment, phase, arrays, categoryOptions, controls,
                   menuGridHTML, menuGridDisplay, noResultsDisplay, rendered,
                   count, debounceState, afterReset>>

\* A slip: the search box is not cleared.
ResetControlsKeepSearch ==
    /\ categoryFilter' = ALL
    /\ dietaryFilter' = "all"
    /\ spiceFilter' = "all"
    /\ sortSelect' = "default"
    /\ UNCHANGED searchInput

\* The values resetFilters gives the five controls.
ResetControls ==
    /\ searchInput' = <<>>
    /\ categoryFilter' = ALL
    /\ dietaryFilter' = "all"
    /\ spiceFilter' = "all"
    /\ sortSelect' = "default"

\* window.resetFilters, called from the page. The function is exported when
\* the script is evaluated and does not look at the load.
resetFilters ==
    /\ ResetControls
    /\ filteredData' = NewArray(menuData)
    /\ heap' = Store({ menuData }, NewArray(menuData), heap[menuData])
    /\ displayMenuItems(heap[menuData])
    /\ updateResultsCount(Len(heap[menuData]))
    /\ lastOp' = "resetFilters"
    /\ afterReset' = "reset"
    /\ UNCHANGED <<environment, viewport, phase, menuData, categoryOptions,
                   debounceState>>

Next ==
    \/ Load
    \/ \E c \in { categoryOptions[i] : i \in 1..Len(categoryOptions) } :
          ChangeCategory(c)
    \/ \E d \in DietaryOptions : ChangeDietary(d)
    \/ \E s \in SpiceOptions : ChangeSpice(s)
    \/ \E v \in SortOptions : ChangeSort(v)
    \/ \E text \in SearchTexts : KeyInput(text)
    \/ \E id \in TimerIds : TimerFire(id)
    \/ Tick
    \/ resetFilters

Spec == Init /\ [][Next]_vars

\* ------------------------------------- the page with its indicator strip

InitIndicator ==
    /\ response \in { MenuFull, MenuEmpty }
    /\ followStrip = TRUE
    /\ probe = NoProbe
    /\ InitPage

\* The user changes the spice filter and the sort, resets the filters and
\* scrolls; the timers of the indicator run.
NextIndicator ==
    \/ Load
    \/ \E s \in SpiceOptions : ChangeSpice(s)
    \/ \E v \in { "default", "price-low" } : ChangeSort(v)
    \/ resetFilters
    \/ \E y \in ScrollPositions : Scroll(y)
    \/ IndicatorTimerFire
    \/ Tick

SpecIndicator == InitIndicator /\ [][NextIndicator]_vars

\* ------------------------------------------- the loader on generated menus

\* The groups a generated menu is made of: with an items array of two items,
\* of one item and of none, without items, with items that are no array, and
\* null in the place of a group.
GroupShapes ==
    { RawGroup(TRUE, Breads, "array",
               << RawItem(Naan, FALSE, <<>>, 300), RawItem(Naan, TRUE, <<>>, 400) >>),
      RawGroup(TRUE, Chicken, "array", << RawItem(ChilliChicken, TRUE, Spicy, 1000) >>),
      RawGroup(TRUE, VegCurries, "array", <<>>),
      RawGroup(TRUE, Extras, "absent", <<>>),
      RawGroup(TRUE, Extras, "other", <<>>),
      NullGroup }

\* Every array of up to MaxGroups of these groups.
GeneratedMenus ==
    { Response("json", TRUE, groups) :
        groups \in UNION { [1..n -> GroupShapes] : n \in 0..MaxGroups } }

InitLoader ==
    /\ response \in GeneratedMenus
    /\ followStrip = FALSE
    /\ probe = NoProbe
    /\ InitPage

NextLoader == Load

\* The page loads one of the generated menus.
SpecLoader == InitLoader /\ [][NextLoader]_vars

\* ---------------------------------------------------------------- claims

\* The search text as the handlers read it.
SearchTerm == trim(toLowerCase(searchInput))

\* item satisfies the criteria the five controls hold.
SatisfiesCriteria(item) ==
    /\ categoryFilter = ALL \/ item.category = categoryFilter
    /\ dietaryFilter = "vegetarian" => item.vegetarian
    /\ dietaryFilter = "non-vegetarian" => ~item.vegetarian
    /\ spiceFilter # "all" => item.spicy = parseInt(spiceFilter)
    /\ SearchTerm # <<>> => MatchesSearch(item, SearchTerm)

\* items is ordered by the comparator of sortType.
OrderedBy(items, sortType) ==
    \A i, j \in 1..Len(items) : i < j => Compare(sortType, items[i], items[j]) <= 0

\* items is in catalog order: ascending id.
CatalogOrder(items) ==
    \A i, j \in 1..Len(items) : i < j => items[i].id < items[j].id

AllDefaults ==
    /\ searchInput = <<>>
    /\ categoryFilter = ALL
    /\ dietaryFilter = "all"
    /\ spiceFilter = "all"
    /\ sortSelect = "default"

\* C1: after a successful load, once no search is pending in the debounce
\* timer, every displayed item satisfies the selected category, dietary and
\* spice criteria and contains the trimmed, lower-cased search text in its
\* title, description or category.
C1_DisplayedSatisfyCriteria ==
    (phase = "ready" /\ Pending(timers) = {}) =>
        \A i \in 1..Len(rendered) : SatisfiesCriteria(rendered[i])

\* C2: with the category, dietary and spice filters at 'all', once the
\* debounced search handler has run for a non-empty text, every catalog item
\* that contains the text is displayed.
C2_SearchFindsEveryMatch ==
    (/\ phase = "ready"
     /\ lastOp = "handleSearch"
     /\ categoryFilter = ALL
     /\ dietaryFilter = "all"
     /\ spiceFilter = "all"
     /\ SearchTerm # <<>>) =>
        \A k \in 1..Len(Catalog) :
            MatchesSearch(Catalog[k], SearchTerm) =>
                \E i \in 1..Len(rendered) : rendered[i] = Catalog[k]

\* C3: whenever the sort selector is 'default', the displayed items are in
\* catalog order.
C3_DefaultSortIsCatalogOrder ==
    (phase = "ready" /\ sortSelect = "default") => CatalogOrder(rendered)

\* C4: under a non-default sort, displayed items that compare equal under the
\* sort key are in their relative catalog order.
C4_TiesKeepCatalogOrder ==
    (phase = "ready" /\ sortSelect # "default") =>
        \A i, j \in 1..Len(rendered) :
            (i < j /\ Compare(sortSelect, rendered[i], rendered[j]) = 0) =>
                rendered[i].id < rendered[j].id

\* C5: whenever the sort selector holds a non-default value, the displayed
\* list is ordered by the comparator of that value, and so are the cards of
\* every category section of the visible grid, after every handler, the one
\* that renders the catalog at page load included.
C5_DisplayedOrderedBySort ==
    (phase = "ready" /\ sortSelect # "default") =>
        /\ OrderedBy(rendered, sortSelect)
        /\ menuGridDisplay = "block" =>
               \A k \in 1..Len(menuGridHTML.sections) :
                   OrderedBy(menuGridHTML.sections[k].cards, sortSelect)

\* C6: after resetFilters, and still after a search that was pending at the
\* reset has run, the five controls hold their defaults, the full catalog is
\* displayed in its original order and the count is the catalog's size.
C6_ResetShowsFullCatalog ==
    (phase = "ready" /\ afterReset # "no") =>
        /\ AllDefaults
        /\ rendered = Catalog
        /\ \A i \in 1..Len(Catalog) : Catalog[i].id = i
        /\ count = Len(Catalog)
        /\ Len(Catalog) > 0 =>
               /\ menuGridDisplay = "block"
               /\ menuGridHTML = [kind |-> "sections", sections |-> Sections(Catalog)]

\* A search that was pending when resetFilters ran has run after it.
C6_Witness ==
    /\ phase = "ready"
    /\ afterReset = "fired"
    /\ lastOp = "handleSearch"
    /\ Len(Catalog) >= 2

\* C7: at most one search is pending at any time, it is the one of the latest
\* keystroke, no run of handleSearch was scheduled by an earlier keystroke,
\* and after a keystroke handleSearch has run once exactly when no search is
\* pending any more.
C7_SinglePendingSearch ==
    /\ Cardinality(Pending(timers)) <= 1
    /\ \A id \in Pending(timers) : timers[id].latest
    /\ ~staleRun
    /\ runsSinceKey <= 1
    /\ burst > 0 => (runsSinceKey = 1 <=> Pending(timers) = {})

\* A burst of several keystrokes has been followed by its one run.
C7_Witness ==
    /\ burst = MaxBurst
    /\ runsSinceKey = 1
    /\ Pending(timers) = {}
    /\ lastOp = "handleSearch"

\* C8: after loadMenuData has failed, the error message stays the content of
\* the menu grid: no event renders category sections with item cards.
C8_ErrorStaysAfterFailedLoad ==
    phase = "failed" => menuGridHTML.kind = "error"

\* C9: when loadMenuData has failed, menuData and filteredData hold the values
\* they held before the call, which are empty arrays.
C9_FailedLoadLeavesData ==
    (phase = "failed" /\ lastOp = "load") =>
        /\ heap[menuData] = <<>>
        /\ heap[filteredData] = <<>>

\* C10: after a successful load, menuData holds the catalog the loader built,
\* in the loader's order, whatever handlers have run.
C10_MenuDataReadOnly ==
    phase = "ready" => Catalog = loadMenuData(response, <<>>).menuData

\* With no filter narrowing the result, a sort has reordered the whole
\* contents of filteredData.
C10_Witness ==
    /\ phase = "ready"
    /\ sortSelect # "default"
    /\ categoryFilter = ALL
    /\ dietaryFilter = "all"
    /\ spiceFilter = "all"
    /\ SearchTerm = <<>>
    /\ Len(heap[filteredData]) = Len(Catalog)
    /\ heap[filteredData] # Catalog

\* -------------------------------------------- functions applied on their own

\* Texts the probed categories and titles are made of.
Hot == <<"H", "o", "t", " ">>
Curries == <<" ", "C", "u", "r", "r", "i", "e", "s">>
LowerChicken == <<"c", "h", "i", "c", "k", "e", "n", " ">>
ChickenSpace == <<"C", "h", "i", "c", "k", "e", "n", " ">>
Vindaloo == <<"V", "i", "n", "d", "a", "l", "o", "o">>
Extra == <<"E", "x", "t", "r", "a">>
Chilli == <<"C", "h", "i", "l", "l", "i">>
SixtyFive == <<"6", "5">>
Masala == <<"M", "a", "s", "a", "l", "a">>
UpperMasala == <<"M", "A", "S", "A", "L", "A", " ">>
Tandoori == <<"T", "a", "n", "d", "o", "o", "r", "i">>
Curry == <<"C", "u", "r", "r", "y">>
ExtraSpicy == <<"e", "x", "t", "r", "a", " ", "s", "p", "i", "c", "y">>
Chicken65 == <<"C", "h", "i", "c", "k", "e", "n", " ", "6", "5">>

\* The parts of a probed category: every keyword of isVegetarian, and texts
\* that hold none.
CategoryFragments ==
    { nonVegKeywords[k] : k \in 1..Len(nonVegKeywords) }
        \cup { vegCategories[k] : k \in 1..Len(vegCategories) }
        \cup { <<>>, Hot, Curries, LowerChicken }

CategoryProbes ==
    { [NoProbe EXCEPT !.kind = "isVegetarian", !.category = a \o b] :
        a \in CategoryFragments, b \in CategoryFragments }

\* The parts of a probed title: the keywords of getSpiceLevel in upper and
\* lower case, and texts that hold none.
TitleFragments ==
    { <<>>, Naan, ChickenSpace, Vindaloo, Extra, Spicy, Chilli, SixtyFive,
      Masala, UpperMasala, Tandoori, Curry }

\* An absent description, and descriptions with and without keywords.
DescriptionProbes ==
    { [has |-> FALSE, text |-> <<>>], [has |-> TRUE, text |-> <<>>],
      [has |-> TRUE, text |-> Spicy], [has |-> TRUE, text |-> ExtraSpicy],
      [has |-> TRUE, text |-> Masala] }

SpiceProbes ==
    { [NoProbe EXCEPT !.kind = "getSpiceLevel", !.title = a \o b,
                      !.hasDescription = d.has, !.description = d.text] :
        a \in TitleFragments, b \in TitleFragments, d \in DescriptionProbes }

\* A menu with a category whose name is a number; an item of another category
\* stands before its items and one behind them.
MenuNumbered ==
    Response("json", TRUE,
        << RawGroup(TRUE, Breads, "array",
                    << RawItem(Naan, FALSE, <<>>, 300),
                       RawItem(Naan, TRUE, <<>>, 400) >>),
           RawGroup(TRUE, SixtyFive, "array",
                    << RawItem(Chicken65, FALSE, <<>>, 1100) >>),
           RawGroup(TRUE, Chicken, "array",
                    << RawItem(ChilliChicken, TRUE, Spicy, 1000) >>) >>)

\* The result lists handed to displayMenuItems: up to MaxResult items of the
\* catalog of MenuNumbered, no item twice, in any order.
ResultLists ==
    LET catalog == loadMenuData(MenuNumbered, <<>>).menuData
        picks == { pick \in UNION { [1..n -> 1..Len(catalog)] : n \in 0..MaxResult } :
                     \A i, j \in DOMAIN pick : i # j => pick[i] # pick[j] }
    IN  { [i \in DOMAIN pick |-> catalog[pick[i]]] : pick \in picks }

ListProbes == { [NoProbe EXCEPT !.kind = "displayMenuItems", !.items = l] : l \in ResultLists }

\* The four filter stages, and the orders they can be applied in.
StageNames == { "category", "dietary", "spice", "search" }

StageOrders ==
    { order \in [1..Cardinality(StageNames) -> StageNames] :
        \A i, j \in DOMAIN order : i # j => order[i] # order[j] }

\* The criteria of the probed pipelines; the search text is trimmed and in
\* lower case, as applyFilters hands it to the search stage.
CriteriaProbes ==
    [category : { ALL, VegCurries, Chicken, Breads, NonVegCurries },
     dietary : DietaryOptions,
     spice : SpiceOptions,
     searchText : { trim(toLowerCase(t)) : t \in SearchTexts }]

StageProbes ==
    { [NoProbe EXCEPT !.kind = "stages", !.menu = loadMenuData(r, <<>>).menuData,
                      !.criteria = c, !.order = order] :
        r \in { MenuFull, MenuSkipped }, c \in CriteriaProbes, order \in StageOrders }

\* One of the filter stages of applyFilters.
ApplyStage(stage, results, c) ==
    CASE stage = "category" -> CategoryStage(results, c.category)
      [] stage = "dietary" -> DietaryStage(results, c.dietary)
      [] stage = "spice" -> SpiceStage(results, c.spice)
      [] stage = "search" -> SearchStage(results, c.searchText)

\* The stages applied one after the other, in the order given.
RECURSIVE ApplyOrder(_, _, _)
ApplyOrder(order, results, c) ==
    IF order = <<>> THEN results
    ELSE ApplyOrder(Tail(order), ApplyStage(Head(order), results, c), c)

IdSet(items) == { items[i].id : i \in 1..Len(items) }

InitPure ==
    /\ probe \in CategoryProbes \cup SpiceProbes \cup ListProbes \cup StageProbes
    /\ response = MenuEmpty
    /\ followStrip = FALSE
    /\ InitPage

ApplyIsVegetarian ==
    /\ probe.kind = "isVegetarian" /\ ~probe.done
    /\ probe' = [probe EXCEPT !.done = TRUE,
                              !.vegetarian = isVegetarian(probe.category)]
    /\ UNCHANGED <<response, followStrip, viewport, phase, arrays,
                   categoryOptions, controls, surface, count, debounceState,
                   lastOp, afterReset>>

ApplyGetSpiceLevel ==
    /\ probe.kind = "getSpiceLevel" /\ ~probe.done
    /\ probe' = [probe EXCEPT !.done = TRUE,
                              !.level = getSpiceLevel(probe.title,
                                                      probe.hasDescription,
                                                      probe.description)]
    /\ UNCHANGED <<response, followStrip, viewport, phase, arrays,
                   categoryOptions, controls, surface, count, debounceState,
                   lastOp, afterReset>>

ApplyStages ==
    /\ probe.kind = "stages" /\ ~probe.done
    /\ probe' = [probe EXCEPT !.done = TRUE,
                              !.ids = IdSet(ApplyOrder(probe.order, probe.menu,
                                                       probe.criteria))]
    /\ UNCHANGED <<response, followStrip, viewport, phase, arrays,
                   categoryOptions, controls, surface, count, debounceState,
                   lastOp, afterReset>>

ApplyDisplayMenuItems ==
    /\ probe.kind = "displayMenuItems" /\ ~probe.done
    /\ probe' = [probe EXCEPT !.done = TRUE]
    /\ displayMenuItems(probe.items)
    /\ UNCHANGED <<response, followStrip, viewport, phase, arrays,
                   categoryOptions, controls, count, debounceState, lastOp,
                   afterReset>>

NextPure ==
    \/ ApplyIsVegetarian
    \/ ApplyGetSpiceLevel
    \/ ApplyStages
    \/ ApplyDisplayMenuItems

\* One function is applied to one of its probes.
SpecPure == InitPure /\ [][NextPure]_vars

\* ---------------------------------------------------- claims, continued

\* Every group is an object with a category, and every element of an items
\* array is an object.
WellFormed(groups) ==
    \A g \in 1..Len(groups) :
        /\ ~groups[g].isNull
        /\ groups[g].hasCategory
        /\ groups[g].itemsKind = "array" =>
               \A i \in 1..Len(groups[g].items) : ~groups[g].items[i].isNull

\* The items of the groups that have an items array, in input order, each
\* with the category of its group.
RECURSIVE FlatItems(_)
FlatItems(groups) ==
    IF groups = <<>> THEN <<>>
    ELSE (IF Head(groups).itemsKind = "array"
          THEN [i \in 1..Len(Head(groups).items) |->
                   [title |-> Head(groups).items[i].title,
                    price |-> Head(groups).items[i].price,
                    category |-> Head(groups).category]]
          ELSE <<>>) \o FlatItems(Tail(groups))

\* The sum of the item counts of the groups that have an items array.
RECURSIVE ItemCount(_)
ItemCount(groups) ==
    IF groups = <<>> THEN 0
    ELSE (IF Head(groups).itemsKind = "array" THEN Len(Head(groups).items) ELSE 0)
            + ItemCount(Tail(groups))

\* C11: for every raw input that is an array of groups, the load succeeds and
\* the catalog has as many items as the groups with an items array hold
\* together (groups whose items are absent or no array are passed over), in
\* input order, with the ids 1..N.
C11_LoaderCountsAndIds ==
    (phase # "loading" /\ WellFormed(response.groups)) =>
        /\ phase = "ready"
        /\ Len(Catalog) = ItemCount(response.groups)
        /\ \A i \in 1..Len(Catalog) :
               /\ Catalog[i].id = i
               /\ Catalog[i].title = FlatItems(response.groups)[i].title
               /\ Catalog[i].price = FlatItems(response.groups)[i].price
               /\ Catalog[i].category = FlatItems(response.groups)[i].category

\* A menu of three groups was loaded: one without items, one whose items are
\* no array, and behind them one with an items array.
C11_Witness ==
    /\ phase = "ready"
    /\ Len(response.groups) = 3
    /\ response.groups[1].itemsKind = "absent"
    /\ response.groups[2].itemsKind = "other"
    /\ response.groups[3].itemsKind = "array"
    /\ Len(Catalog) = 2
    /\ Catalog[2].id = 2

\* C12: after every render, the "no results" block is shown and the grid is
\* hidden exactly when the rendered list is empty; a non-empty list is shown
\* as a visible grid of one category section or more, and a visible grid
\* never has zero sections.
C12_NoResultsIffEmpty ==
    (phase = "ready" \/ lastOp = "resetFilters") =>
        /\ (noResultsDisplay = "block" /\ menuGridDisplay = "none") <=> rendered = <<>>
        /\ rendered # <<>> =>
               /\ noResultsDisplay = "none"
               /\ menuGridDisplay = "block"
               /\ Len(CategorySections(menuGridHTML)) > 0
        /\ ~(menuGridDisplay = "block" /\ CategorySections(menuGridHTML) = <<>>)

\* A change of a filter has left no item of a catalog that is not empty: the
\* sections of the render before are still the content of the hidden grid.
C12_Witness ==
    /\ phase = "ready"
    /\ lastOp = "change"
    /\ Len(Catalog) > 0
    /\ rendered = <<>>
    /\ noResultsDisplay = "block"
    /\ CategorySections(menuGridHTML) # <<>>

\* The place of the first item of category c in items.
FirstIndex(items, c) ==
    CHOOSE i \in 1..Len(items) :
        /\ items[i].category = c
        /\ \A j \in 1..(i - 1) : items[j].category # c

\* C13: displayMenuItems makes one category section of every category of the
\* result list, the sections in the order in which their categories occur
\* first in the list, each with exactly the items of its category in the
\* order of the list and with their number as its count.
C13_GroupsInFirstSeenOrder ==
    (probe.kind = "displayMenuItems" /\ probe.done /\ probe.items # <<>>) =>
        LET sections == CategorySections(menuGridHTML)
            items == probe.items
        IN  /\ \A i \in 1..Len(items) :
                   \E k \in 1..Len(sections) : sections[k].category = items[i].category
            /\ \A k, l \in 1..Len(sections) :
                   k < l =>
                       /\ sections[k].category # sections[l].category
                       /\ \E i \in 1..Len(items) :
                              items[i].category = sections[k].category
                       /\ \E i \in 1..Len(items) :
                              items[i].category = sections[l].category
                       /\ FirstIndex(items, sections[k].category)
                              < FirstIndex(items, sections[l].category)
            /\ \A k \in 1..Len(sections) :
                   /\ sections[k].cards =
                          SelectSeq(items,
                                    LAMBDA item : item.category = sections[k].category)
                   /\ sections[k].count = Len(sections[k].cards)
                   /\ sections[k].count > 0

\* The category groups on display: the sections of the grid, unless the grid
\* is hidden.
RenderedGroups ==
    IF menuGridDisplay = "none" THEN <<>> ELSE CategorySections(menuGridHTML)

\* The rectangle of the k-th group on display at the scroll offset of the
\* window.
GroupRect(k) == SectionRect(k, scrollY)

\* The groups on display that intersect the viewport.
IntersectingGroups ==
    { k \in 1..Len(RenderedGroups) : Intersects(GroupRect(k)) }

\* The intersecting groups no intersecting group is closer than.
ClosestGroups ==
    { k \in IntersectingGroups :
        \A l \in IntersectingGroups : Distance(GroupRect(k)) <= Distance(GroupRect(l)) }

\* The entries of the strip that carry the class 'active'.
ActiveEntries == { i \in 1..Len(strip) : strip[i].active }

StripCategories == [i \in 1..Len(strip) |-> strip[i].category]

GroupCategories == [k \in 1..Len(RenderedGroups) |-> RenderedGroups[k].category]

\* A rebuild of the strip is pending.
ReinitPending ==
    \E i \in 1..Len(indicatorTimers) : indicatorTimers[i].kind = "reinit"

\* The entries of the strip are marked by a listener that measures the groups
\* on display.
StripSettled ==
    /\ \E i \in 1..Len(listeners) :
           listeners[i].itemsLive /\ listeners[i].sectionsLive
    /\ StripCategories = GroupCategories

\* C14: after a scroll event at which the menu section is within the band
\* and one group on display or more intersects the viewport, exactly one
\* entry of the strip is active, and it is the entry of a group that
\* intersects the viewport and that no other intersecting group is closer
\* to the centre of the viewport than.
C14_ActiveIsClosestIntersecting ==
    (lastOp = "scroll" /\ InMenu(scrollY) /\ IntersectingGroups # {}) =>
        /\ Cardinality(ActiveEntries) = 1
        /\ \A i \in ActiveEntries :
               \E k \in ClosestGroups : RenderedGroups[k].category = strip[i].category

\* Two intersecting groups or more are at the same distance from the centre
\* of the viewport, and no intersecting group is closer.
Tie == Cardinality(ClosestGroups) >= 2

\* C15: at a scroll event that finds two intersecting groups at the same
\* distance from the centre of the viewport and none closer, with the strip
\* measuring the groups on display, the entry that was active before the
\* event, the entry of one of the two, is the active one after it.
C15_TieKeepsActive ==
    [][(/\ lastOp' = "scroll"
        /\ StripSettled
        /\ InMenu(scrollY')
        /\ Tie'
        /\ \E i \in ActiveEntries :
               \E k \in ClosestGroups' : RenderedGroups[k].category = strip[i].category)
       => ActiveEntries' = ActiveEntries]_vars

\* C16: after every render, once no rebuild of the strip is pending any more
\* (from then on the strip stays as it is until the next render), the entries
\* of the strip are the categories of the groups on display, in their order;
\* after a render of an empty result the strip has no entry.
C16_StripFollowsRender ==
    (phase = "ready" /\ ~ReinitPending) => StripCategories = GroupCategories

\* C17: the strip is visible only while the menu section is within the band,
\* as measured at the latest scroll event or at page start, also after the
\* timers started by building the strip have run.
C17_VisibleOnlyInBand ==
    indicatorVisible => isInMenu

\* C18: for every catalog and every combination of category, dietary, spice
\* and search criteria, the four filter stages applied in any order leave the
\* items with the same ids as the stages in the order of applyFilters.
C18_StageOrderIrrelevant ==
    (probe.kind = "stages" /\ probe.done) =>
        probe.ids = IdSet(FilterStages(probe.menu, probe.criteria.category,
                                       probe.criteria.dietary, probe.criteria.spice,
                                       probe.criteria.searchText))

\* The stages were applied in the reverse of the order of applyFilters, with
\* every criterion narrowing, and some items but not all are left.
C18_Witness ==
    /\ probe.kind = "stages" /\ probe.done
    /\ probe.order = <<"search", "spice", "dietary", "category">>
    /\ probe.criteria.category # ALL
    /\ probe.criteria.dietary # "all"
    /\ probe.criteria.spice # "all"
    /\ probe.criteria.searchText # <<>>
    /\ probe.ids # {}
    /\ probe.ids # IdSet(probe.menu)

\* keyword occurs in text, character by character.
Occurs(keyword, text) ==
    \E start \in 1..Len(text) :
        \A j \in 1..Len(keyword) :
            start + j - 1 <= Len(text) /\ text[start + j - 1] = keyword[j]

\* C19: isVegetarian is false for every category in which a non-vegetarian
\* keyword occurs, wherever it stands and whether or not a vegetarian
\* category name occurs too ('Non-Veg Curries' holds 'Veg Curries' and is not
\* vegetarian); it is true exactly when no non-vegetarian keyword and a
\* vegetarian category name occurs, and so false when none of either occurs.
C19_NonVegKeywordOverrides ==
    (probe.kind = "isVegetarian" /\ probe.done) =>
        LET nonVeg == \E k \in 1..Len(nonVegKeywords) :
                          Occurs(nonVegKeywords[k], probe.category)
            veg == \E k \in 1..Len(vegCategories) :
                       Occurs(vegCategories[k], probe.category)
        IN  /\ nonVeg => probe.vegetarian = FALSE
            /\ probe.vegetarian = TRUE <=> (~nonVeg /\ veg)
            /\ (~nonVeg /\ ~veg) => probe.vegetarian = FALSE
            /\ probe.category = NonVegCurries => probe.vegetarian = FALSE
            /\ probe.category = Breads \o Chicken => probe.vegetarian = FALSE
            /\ probe.category = Chicken \o Breads => probe.vegetarian = FALSE
            /\ probe.category = VegCurries => probe.vegetarian = TRUE
            /\ probe.category = Hot \o Curries => probe.vegetarian = FALSE

\* isVegetarian was applied to 'Non-Veg Curries'.
C19_Witness ==
    /\ probe.kind = "isVegetarian" /\ probe.done
    /\ probe.category = NonVegCurries
    /\ Occurs(VegCurries, probe.category)
    /\ probe.vegetarian = FALSE

\* The highest tier a keyword of which occurs in text, 0 if there is none.
HighestTier(text) ==
    IF Occurs(KwVindaloo, text) \/ Occurs(KwExtraSpicy, text) THEN 3
    ELSE IF Occurs(KwChilli, text) \/ Occurs(KwSpicy, text) \/ Occurs(Kw65, text)
    THEN 2
    ELSE IF Occurs(KwMasala, text) \/ Occurs(KwTandoori, text)
            \/ Occurs(KwCurry, text)
    THEN 1
    ELSE 0

\* C20: getSpiceLevel is the highest tier a keyword of which occurs in the
\* lower-cased title + ' ' + description (an absent description read as the
\* empty text): 3 whenever a keyword of tier 3 occurs, whatever else occurs,
\* 0 when no keyword occurs, and never a value outside 0..3.
C20_HighestTierWins ==
    (probe.kind = "getSpiceLevel" /\ probe.done) =>
        LET text == toLowerCase(probe.title \o <<" ">> \o probe.description)
        IN  /\ probe.level \in 0..3
            /\ probe.level = HighestTier(text)
            /\ \A t \in 1..3 :
                   probe.level = t =>
                       \E kw \in (CASE t = 3 -> { KwVindaloo, KwExtraSpicy }
                                     [] t = 2 -> { KwChilli, KwSpicy, Kw65 }
                                     [] t = 1 -> { KwMasala, KwTandoori, KwCurry }) :
                           Occurs(kw, text)
            /\ probe.title = Vindaloo \o Masala => probe.level = 3
            /\ probe.title = Masala \o Vindaloo => probe.level = 3
            /\ (probe.title = Naan /\ ~probe.hasDescription) => probe.level = 0

\* getSpiceLevel was applied to a title with a keyword of tier 1 before one
\* of tier 3.
C20_Witness ==
    /\ probe.kind = "getSpiceLevel" /\ probe.done
    /\ probe.title = Masala \o Vindaloo
    /\ probe.level = 3

\* The listeners that measure the sections of #menuGrid and mark the entries
\* of the strip: those registered by the latest build of the strip, with no
\* render since.
LiveListeners ==
    { i \in 1..Len(listeners) :
        listeners[i].sectionsLive /\ listeners[i].itemsLive }

\* C21: once the strip is built, exactly one scroll listener of the strip is
\* registered, whatever the number of renders, and every listener a scroll
\* event has run holds the sections of the latest render and the entries of
\* the strip as it is.
C21_OneListenerOfLatestRender ==
    /\ strip # <<>> => Len(listeners) = 1
    /\ lastOp = "scroll" => LiveListeners = 1..Len(listeners)

\* The number of cards in the given category sections.
RECURSIVE CardsIn(_)
CardsIn(sections) ==
    IF sections = <<>> THEN 0
    ELSE Len(Head(sections).cards) + CardsIn(Tail(sections))

\* The number of items the user sees: the cards of #menuGrid, none while the
\* grid is hidden.
DisplayedCount ==
    IF menuGridDisplay = "none" THEN 0
    ELSE CardsIn(CategorySections(menuGridHTML))

\* C22: after a handler has run (applyFilters or handleSort on a change of a
\* control, handleSearch on a timer of the search box, resetFilters), the
\* number in #count is the number of items on display.
C22_CountIsDisplayed ==
    lastOp \in { "change", "handleSearch", "resetFilters" } =>
        count = DisplayedCount

\* C23: after a scroll event at which the menu section is within the band,
\* every active entry of the strip is the entry of a group on display that
\* intersects the viewport; where no group on display intersects the
\* viewport, no entry is active.
C23_ActiveOnlyIfIntersecting ==
    (lastOp = "scroll" /\ InMenu(scrollY)) =>
        \A i \in ActiveEntries :
            \E k \in IntersectingGroups :
                RenderedGroups[k].category = strip[i].category

====
